---- MODULE Spec2Model ----
(***************************************************************************)
(* Model of the Google Indexing API client: the sqlite work queue          *)
(* (google_indexing_api_client/db.py), the credential-rotating HTTP client *)
(* (glendale/web.py) and the driver loop (glendale/app.py, index_urls).    *)
(***************************************************************************)
EXTENDS Integers, Sequences, FiniteSets, TLC

(* ------------------------------ bounds --------------------------------- *)
\* longest input handed to upload_urls_from_io
MaxLines == 2
\* longest input of one upload among the operations of SpecStore
MaxBatch == 1
\* most entries of api_keys_dir
MaxKeys == 3
\* last value of the wall clock at which a store operation may still start
MaxClock == 4
\* most operations called on one GoogleAPIClient
MaxOps == 5
\* most invocations of the `indexing` action
MaxRuns == 2

(* ------------------------------ values --------------------------------- *)
\* URLStatus.NEW.value / URLStatus.SENT_TO_INDEX.value
URLStatus_NEW == "new"
SENT_TO_INDEX == "sent_to_index"
URLStatus == {URLStatus_NEW, SENT_TO_INDEX}

\* Python's None where a url (a sequence of characters) is expected
None == <<"None">>

\* characters str.strip() removes
Whitespace == {" ", "\n"}

\* the lines a file handed to add_urls may hold (a line is a sequence of
\* characters, with or without its line end and surrounding blanks)
Lines == { <<"a", "\n">>, <<" ", "a">>, <<"b", "\n">>, <<"b", " ", "\n">>, <<"c", "\n">> }

RECURSIVE LStrip(_)
LStrip(s) == IF s # <<>> /\ Head(s) \in Whitespace THEN LStrip(Tail(s)) ELSE s

RECURSIVE RStrip(_)
RStrip(s) ==
    IF s # <<>> /\ s[Len(s)] \in Whitespace THEN RStrip(SubSeq(s, 1, Len(s) - 1)) ELSE s

\* str.strip()
Strip(s) == RStrip(LStrip(s))

\* the urls the lines above stand for
Urls == { Strip(l) : l \in Lines }

\* all sequences over S of length at most n
RECURSIVE SeqsUpTo(_, _)
SeqsUpTo(S, n) ==
    IF n = 0 THEN { <<>> }
    ELSE LET shorter == SeqsUpTo(S, n - 1)
         IN  shorter \cup { Append(s, x) : s \in shorter, x \in S }

Range(s) == { s[i] : i \in 1..Len(s) }

NoDuplicates(s) == \A i, j \in 1..Len(s) : s[i] = s[j] => i = j

(* ------------------------------ state ---------------------------------- *)
VARIABLES
    \* --- the sqlite database ---
    disk,         \* rows of indexing_urls as committed to the database file
    table,        \* rows of indexing_urls as self.connection sees them
    clock,        \* the next value datetime.datetime.now() returns
    \* --- one DatabaseConnection instance ---
    urlsGen,      \* self._urls_for_indexing: "None", "running" or "finished"
    cursor,       \* the row the SELECT of the generator is on (0: none)
    uploadLog,    \* log_info of the last upload_urls_from_io
    fp,           \* the input a pending add_urls is going to read
    \* --- observation of the store's callers ---
    returned,     \* urls next_url_for_indexing has returned on this instance
    indexed,      \* urls for which update_url_status(u, SENT_TO_INDEX) returned
    lastOp,       \* the last store operation called, with its arguments
    \* --- one GoogleAPIClient instance ---
    keysDir,      \* api_keys_dir.iterdir(): the suffix of each entry, in order
    client,       \* _api_keys_paths (pos), _current_credentials (cred),
                  \* _session (session), and the sessions not closed (open)
    calls,        \* the operations called on the client, with their results
    \* --- one invocation of index_urls ---
    pc,           \* where index_urls is: "claim", "submit", "classify",
                  \* "finish" (after the loop) or "done" (it has returned or raised)
    url,          \* url
    repeat_current_url,
    log_info,     \* Counter: processed_urls, api_keys_used
    resp,         \* resp.status_code of the last response
    outcome,      \* how the loop was left
    summary,      \* the 'Process finished. Stats' record, once logged
    table0,       \* the table as it was when index_urls started
    runs          \* invocations of the indexing action so far

storeVars == <<disk, table, clock, urlsGen, cursor, uploadLog, fp, returned, indexed, lastOp>>

clientVars == <<keysDir, client, calls>>

driverVars == <<pc, url, repeat_current_url, log_info, resp, outcome, summary, table0, runs>>

vars == <<storeVars, clientVars, driverVars>>

(* --------------------------- the url store ----------------------------- *)
Row(u, s, c, m) == [url |-> u, status |-> s, created |-> c, updated |-> m]

UrlsOf(t) == { t[i].url : i \in 1..Len(t) }

NewUrls(t) == { t[i].url : i \in { j \in 1..Len(t) : t[j].status = URLStatus_NEW } }

SentUrls(t) == { t[i].url : i \in { j \in 1..Len(t) : t[j].status = SENT_TO_INDEX } }

RowOf(t, u) == t[CHOOSE i \in 1..Len(t) : t[i].url = u]

Min(S) == CHOOSE x \in S : \A y \in S : x <= y

\* log_info = Counter() of upload_urls_from_io
NoLog == [num |-> 0, added |-> 0, exists |-> 0]

\* The INSERT fails with sqlite3.IntegrityError: the url column of
\* indexing_urls is unique (the schema, static/init_db.sql).
IntegrityError(t, u) == u \in UrlsOf(t)

\* INSERT INTO indexing_urls (url, status, created, updated) VALUES (?, ?, ?, ?)
ExecuteInsert(t, u, now) == Append(t, Row(u, URLStatus_NEW, now, now))

\* A variant of the loop body that replaces the stored row of a url already
\* present (INSERT OR REPLACE) and counts it as added.
UploadLineReplacing(db, line, now) ==
    LET u == Strip(line)
        kept == SelectSeq(db.table, LAMBDA r : r.url # u)
        t == ExecuteInsert(kept, u, now)
    IN  [db EXCEPT !.table = t, !.disk = t, !.log.num = @ + 1, !.log.added = @ + 1]

\* A variant of the loop body that does not catch sqlite3.IntegrityError: the
\* error leaves the loop, and the lines after a duplicate are never read.
UploadLineRaising(db, line, now) ==
    LET u == Strip(line)
    IN  IF db.raised THEN db
        ELSE IF IntegrityError(db.table, u)
             THEN [db EXCEPT !.log.num = @ + 1, !.raised = TRUE]
             ELSE LET t == ExecuteInsert(db.table, u, now)
                  IN  [db EXCEPT !.table = t, !.disk = t,
                                 !.log.num = @ + 1, !.log.added = @ + 1]

\* A variant of the loop body that counts a duplicate as added.
UploadLineMiscounting(db, line, now) ==
    LET u == Strip(line)
    IN  IF IntegrityError(db.table, u)
        THEN [db EXCEPT !.log.num = @ + 1, !.log.added = @ + 1]
        ELSE LET t == ExecuteInsert(db.table, u, now)
             IN  [db EXCEPT !.table = t, !.disk = t,
                            !.log.num = @ + 1, !.log.added = @ + 1]

\* One iteration of the loop of upload_urls_from_io on
\* db = [table, disk, log, raised]: strip the line, INSERT and commit, or
\* count the url as existing when the INSERT raises IntegrityError.
UploadLine(db, line, now) ==
    LET u == Strip(line)
    IN  IF IntegrityError(db.table, u)
        THEN [db EXCEPT !.log.num = @ + 1, !.log.exists = @ + 1]
        ELSE LET t == ExecuteInsert(db.table, u, now)
             IN  [db EXCEPT !.table = t, !.disk = t,
                            !.log.num = @ + 1, !.log.added = @ + 1]

\* upload_urls_from_io(fp): `now` is read once, before the loop
RECURSIVE upload_urls_from_io(_, _, _)
upload_urls_from_io(db, lines, now) ==
    IF lines = <<>> THEN db
    ELSE upload_urls_from_io(UploadLine(db, Head(lines), now), Tail(lines), now)

\* A variant of the UPDATE without its WHERE clause.
ExecuteUpdateAll(t, u, s, now) ==
    [i \in 1..Len(t) |-> [t[i] EXCEPT !.status = s, !.updated = now]]

\* UPDATE indexing_urls SET status = ?, updated = ? WHERE url = ?
ExecuteUpdate(t, u, s, now) ==
    [i \in 1..Len(t) |->
        IF t[i].url = u THEN [t[i] EXCEPT !.status = s, !.updated = now] ELSE t[i]]

\* A variant of update_url_status that returns without connection.commit().
UpdateWithoutCommit(db, u, s, now) ==
    [db EXCEPT !.table = ExecuteUpdate(db.table, u, s, now)]

\* update_url_status(url, new_status): UPDATE, then commit
update_url_status(db, u, s, now) ==
    LET t == ExecuteUpdate(db.table, u, s, now)
    IN  [db EXCEPT !.table = t, !.disk = t]

\* The row the SELECT ... WHERE status == 'new' of the generator stops on
\* when it steps on from row c (0: from the start), or 0 when it reaches the
\* end: the statement walks the table forward in rowid order and tests a
\* row's status when it reaches the row.
Step(t, c) ==
    LET ahead == { i \in (c + 1)..Len(t) : t[i].status = URLStatus_NEW }
    IN  IF ahead = {} THEN 0 ELSE Min(ahead)

\* A variant of the property that runs the SELECT again on every call.
NextUrlRequerying(t, gen, c) ==
    LET p == Step(t, 0)
    IN  IF p = 0 THEN [url |-> None, gen |-> "finished", cursor |-> 0]
        ELSE [url |-> t[p].url, gen |-> "running", cursor |-> Step(t, p)]

\* A variant of the generator whose SELECT has no WHERE clause.
NextUrlUnfiltered(t, gen, c) ==
    LET p == IF gen = "None" THEN (IF Len(t) > 0 THEN 1 ELSE 0) ELSE c
    IN  IF gen = "finished" \/ p = 0
        THEN [url |-> None, gen |-> "finished", cursor |-> 0]
        ELSE [url |-> t[p].url, gen |-> "running",
              cursor |-> IF p < Len(t) THEN p + 1 ELSE 0]

\* next_url_for_indexing: create the generator on first use, then one
\* __next__ of _not_indexed_urls_generator; None once it has raised
\* StopIteration (a finished generator raises it again on every call).
\* The first __next__ executes the SELECT, which steps to its first row;
\* fetchone() hands out the row the statement is on (cursor) and steps the
\* statement on to the next one, so a row's status is tested one call before
\* the row is returned.
next_url_for_indexing(t, gen, c) ==
    LET p == IF gen = "None" THEN Step(t, 0) ELSE c
    IN  IF gen = "finished" \/ p = 0
        THEN [url |-> None, gen |-> "finished", cursor |-> 0]
        ELSE [url |-> t[p].url, gen |-> "running", cursor |-> Step(t, p)]

Db == [table |-> table, disk |-> disk, log |-> NoLog, raised |-> FALSE]

\* what add_urls ends with: the counters it logs, and the error it raised
Summary(db) ==
    [num |-> db.log.num, added |-> db.log.added, exists |-> db.log.exists,
     error |-> IF db.raised THEN "IntegrityError" ELSE "none"]

NoOp == [op |-> "none", url |-> None, status |-> URLStatus_NEW]

(* ----------------------- operations on the store ----------------------- *)
\* add_urls / upload_urls_from_io(fp)
UploadUrls(lines) ==
    LET db == upload_urls_from_io(Db, lines, clock)
    IN  /\ table' = db.table
        /\ disk' = db.disk
        /\ uploadLog' = Summary(db)
        /\ clock' = clock + 1
        /\ lastOp' = [NoOp EXCEPT !.op = "upload_urls_from_io"]
        /\ UNCHANGED <<urlsGen, cursor, fp, returned, indexed>>

\* url = db.next_url_for_indexing
NextUrl ==
    LET r == next_url_for_indexing(table, urlsGen, cursor)
    IN  /\ urlsGen' = r.gen
        /\ cursor' = r.cursor
        /\ returned' = IF r.url = None THEN returned ELSE Append(returned, r.url)
        /\ lastOp' = [NoOp EXCEPT !.op = "next_url_for_indexing", !.url = r.url]
        /\ UNCHANGED <<disk, table, clock, uploadLog, fp, indexed>>

\* db.update_url_status(u, s)
UpdateUrlStatus(u, s) ==
    LET db == update_url_status(Db, u, s, clock)
    IN  /\ table' = db.table
        /\ disk' = db.disk
        /\ clock' = clock + 1
        /\ indexed' = IF s = SENT_TO_INDEX THEN indexed \cup {u} ELSE indexed
        /\ lastOp' = [op |-> "update_url_status", url |-> u, status |-> s]
        /\ UNCHANGED <<urlsGen, cursor, uploadLog, fp, returned>>

\* The process ends (close_connection, or a crash) and a new one opens the
\* database file: DatabaseConnection(DB_FILE_PATH). What was not committed is
\* gone; the new instance has no generator yet.
Reconnect ==
    /\ table' = disk
    /\ urlsGen' = "None"
    /\ cursor' = 0
    /\ returned' = <<>>
    /\ lastOp' = [NoOp EXCEPT !.op = "DatabaseConnection"]
    /\ UNCHANGED <<disk, clock, uploadLog, fp, indexed>>

(* ---------------------- the indexing api client ------------------------ *)
\* Path.suffix of the entries of api_keys_dir
Suffixes == {".json", ".txt"}

\* GoogleAPIClient.__init__: generator not started, no credentials, no session
NewClient == [pos |-> 0, cred |-> 0, session |-> 0, open |-> {}]

\* A variant of the generator that starts over at the first entry when it
\* has reached the end of the directory.
NextKeyPathWrapping(dir, pos) ==
    LET rest == { i \in (pos + 1)..Len(dir) : dir[i] = ".json" }
        all == { i \in 1..Len(dir) : dir[i] = ".json" }
    IN  IF rest # {} THEN Min(rest) ELSE IF all = {} THEN 0 ELSE Min(all)

\* A variant of the generator without the suffix test.
NextKeyPathAnySuffix(dir, pos) == IF pos < Len(dir) THEN pos + 1 ELSE 0

\* One __next__ of _api_key_paths_generator from entry pos: the index of the
\* next entry whose suffix is '.json', or 0 for StopIteration.
NextKeyPath(dir, pos) ==
    LET rest == { i \in (pos + 1)..Len(dir) : dir[i] = ".json" }
    IN  IF rest = {} THEN 0 ELSE Min(rest)

\* next_credentials: the credentials of the next key file become the current
\* ones; None (0) on StopIteration. A credential is named by the index of its
\* key file in the directory.
next_credentials(dir, cl) ==
    LET i == NextKeyPath(dir, cl.pos)
    IN  IF i = 0
        THEN [cl |-> [cl EXCEPT !.pos = Len(dir)], ret |-> 0, raised |-> FALSE]
        ELSE [cl |-> [cl EXCEPT !.pos = i, !.cred = i], ret |-> i, raised |-> FALSE]

\* A variant of create_new_session that does not close the session held.
CreateNewSessionLeaking(dir, cl) ==
    LET n == next_credentials(dir, cl)
    IN  IF n.ret = 0
        THEN [cl |-> n.cl, ret |-> 0, raised |-> TRUE]
        ELSE [cl |-> [n.cl EXCEPT !.session = n.ret, !.open = @ \cup {n.ret}],
              ret |-> n.ret, raised |-> FALSE]

\* A variant of create_new_session that reads current_credentials where the
\* code reads next_credentials.
CreateNewSessionReusing(dir, cl) ==
    LET closed == IF cl.session # 0 THEN [cl EXCEPT !.open = @ \ {cl.session}] ELSE cl
        n == IF closed.cred = 0 THEN next_credentials(dir, closed)
             ELSE [cl |-> closed, ret |-> closed.cred, raised |-> FALSE]
    IN  IF n.ret = 0
        THEN [cl |-> n.cl, ret |-> 0, raised |-> TRUE]
        ELSE [cl |-> [n.cl EXCEPT !.session = n.ret, !.open = @ \cup {n.ret}],
              ret |-> n.ret, raised |-> FALSE]

\* create_new_session: close the session held, take the next credentials,
\* raise AuthenticationDataIsOutError when there are none, else hold a new
\* AuthorizedSession (named by its credential).
create_new_session(dir, cl) ==
    LET closed == IF cl.session # 0 THEN [cl EXCEPT !.open = @ \ {cl.session}] ELSE cl
        n == next_credentials(dir, closed)
    IN  IF n.ret = 0
        THEN [cl |-> n.cl, ret |-> 0, raised |-> TRUE]
        ELSE [cl |-> [n.cl EXCEPT !.session = n.ret, !.open = @ \cup {n.ret}],
              ret |-> n.ret, raised |-> FALSE]

\* the session property: create the session on first use
session(dir, cl) ==
    IF cl.session = 0 THEN create_new_session(dir, cl)
    ELSE [cl |-> cl, ret |-> cl.session, raised |-> FALSE]

\* index_request(url), up to the post: the session the request goes through
\* (a session that was closed opens connections again when it is used), or
\* the error raised while getting one
index_request(dir, cl) ==
    LET s == session(dir, cl)
    IN  IF s.raised THEN s
        ELSE [s EXCEPT !.cl.open = @ \cup {s.ret}]

\* A variant of close() without the call of session.close().
CloseNotReleasing(cl) == cl

\* close(): closes the session held, and keeps holding it
close(cl) == IF cl.session # 0 THEN [cl EXCEPT !.open = @ \ {cl.session}] ELSE cl

\* the current_credentials property
current_credentials(dir, cl) ==
    IF cl.cred = 0 THEN next_credentials(dir, cl)
    ELSE [cl |-> cl, ret |-> cl.cred, raised |-> FALSE]

\* what the endpoint can answer: resp.status_code, and whether resp.json()
\* can decode the body
StatusCodes == {200, 429, 500}

Call(op, u, c, st) == [op |-> op, url |-> u, cred |-> c, status |-> st]

(* -------------------- operations on the client ------------------------- *)
\* client.create_new_session()
CreateNewSession ==
    LET r == create_new_session(keysDir, client)
    IN  /\ client' = r.cl
        /\ calls' = Append(calls, Call("create_new_session", None, r.ret, 0))
        /\ UNCHANGED keysDir

\* client.index_request(u) on which post returns a response with the given
\* status code (0: post raises a requests exception instead), or which
\* raises AuthenticationDataIsOutError before anything is sent
IndexRequest(u, st) ==
    LET r == index_request(keysDir, client)
    IN  /\ client' = r.cl
        /\ calls' = Append(calls, Call("index_request", Strip(u), r.ret,
                                       IF r.raised THEN 0 ELSE st))
        /\ UNCHANGED keysDir

\* client.close()
Close ==
    /\ client' = close(client)
    /\ calls' = Append(calls, Call("close", None, client.session, 0))
    /\ UNCHANGED keysDir

\* client.current_credentials
CurrentCredentials ==
    LET r == current_credentials(keysDir, client)
    IN  /\ client' = r.cl
        /\ calls' = Append(calls, Call("current_credentials", None, r.ret, 0))
        /\ UNCHANGED keysDir

(* ----------------------------- index_urls ------------------------------ *)
\* log_info = Counter()
NoCount == [processed_urls |-> 0, api_keys_used |-> 0]

NoSummary == [logged |-> FALSE, processed_urls |-> 0, api_keys_used |-> 0]

\* lines 147-153: a new process opens the database and builds a client
Begin ==
    /\ pc = "claim"
    /\ url = None
    /\ repeat_current_url = FALSE
    /\ log_info = NoCount
    /\ resp = 0
    /\ outcome = "running"
    /\ summary = NoSummary
    /\ table0 = table
    /\ client = NewClient
    /\ calls = <<>>

\* lines 155-163: claim the next url unless the last one is to be repeated;
\* leave the loop when there is none
Claim ==
    /\ pc = "claim"
    /\ IF ~repeat_current_url
       THEN NextUrl /\ url' = lastOp'.url /\ UNCHANGED repeat_current_url
       ELSE repeat_current_url' = FALSE /\ UNCHANGED <<url, storeVars>>
    /\ IF url' = None
       THEN pc' = "finish" /\ outcome' = "QUEUE_EXHAUSTED"
       ELSE pc' = "submit" /\ UNCHANGED outcome
    /\ UNCHANGED <<clientVars, log_info, resp, summary, table0, runs>>

\* lines 165-168: the request is sent and answered with a status code and a
\* body resp.json() decodes
Submit ==
    /\ pc = "submit"
    /\ index_request(keysDir, client).raised = FALSE
    /\ \E st \in StatusCodes :
          /\ IndexRequest(url, st)
          /\ resp' = st
    /\ log_info' = IF log_info.api_keys_used = 0
                   THEN [log_info EXCEPT !.api_keys_used = 1] ELSE log_info
    /\ pc' = "classify"
    /\ UNCHANGED <<storeVars, url, repeat_current_url, outcome, summary, table0, runs>>

\* line 165: there is no session yet and no key file to make one from; the
\* AuthenticationDataIsOutError of create_new_session is raised outside the
\* try of lines 181-186 and leaves index_urls
SubmitWithoutCredentials ==
    /\ pc = "submit"
    /\ index_request(keysDir, client).raised
    /\ IndexRequest(url, 0)
    /\ pc' = "done"
    /\ outcome' = "AuthenticationDataIsOutError"
    /\ UNCHANGED <<storeVars, url, repeat_current_url, log_info, resp, summary, table0, runs>>

\* lines 165-166: post raises (no response), or the body of the response is
\* not JSON and resp.json() raises; nothing catches either
SubmitFails ==
    /\ pc = "submit"
    /\ index_request(keysDir, client).raised = FALSE
    /\ \/ /\ IndexRequest(url, 0)
          /\ outcome' = "ConnectionError"
          /\ UNCHANGED resp
       \/ \E st \in StatusCodes :
             /\ IndexRequest(url, st)
             /\ resp' = st
             /\ outcome' = "JSONDecodeError"
    /\ pc' = "done"
    /\ UNCHANGED <<storeVars, url, repeat_current_url, log_info, summary, table0, runs>>

\* A variant of lines 170-188 that does not set repeat_current_url after a
\* rotation: the next iteration claims a new url.
RotateWithoutRepeat ==
    /\ pc = "classify"
    /\ resp # 200
    /\ CreateNewSession
    /\ IF create_new_session(keysDir, client).raised
       THEN /\ outcome' = "CREDENTIALS_EXHAUSTED"
            /\ pc' = "finish"
            /\ UNCHANGED log_info
       ELSE /\ log_info' = [log_info EXCEPT !.api_keys_used = @ + 1]
            /\ pc' = "claim"
            /\ UNCHANGED outcome
    /\ UNCHANGED <<storeVars, url, repeat_current_url, resp, summary, table0, runs>>

\* A variant of lines 170-188 whose except branch does not break: the loop
\* goes on with the next url.
RotateContinuingWhenOut ==
    /\ pc = "classify"
    /\ resp # 200
    /\ CreateNewSession
    /\ IF create_new_session(keysDir, client).raised
       THEN UNCHANGED <<log_info, repeat_current_url>>
       ELSE /\ log_info' = [log_info EXCEPT !.api_keys_used = @ + 1]
            /\ repeat_current_url' = TRUE
    /\ pc' = "claim"
    /\ UNCHANGED <<storeVars, url, resp, outcome, summary, table0, runs>>

\* lines 170-188: a status other than 200; the session is replaced and the
\* url repeated, or the key files are out and the loop is left
Rotate ==
    /\ pc = "classify"
    /\ resp # 200
    /\ CreateNewSession
    /\ IF create_new_session(keysDir, client).raised
       THEN /\ outcome' = "CREDENTIALS_EXHAUSTED"
            /\ pc' = "finish"
            /\ UNCHANGED <<log_info, repeat_current_url>>
       ELSE /\ log_info' = [log_info EXCEPT !.api_keys_used = @ + 1]
            /\ repeat_current_url' = TRUE
            /\ pc' = "claim"
            /\ UNCHANGED outcome
    /\ UNCHANGED <<storeVars, url, resp, summary, table0, runs>>

\* A variant of lines 189-190 reached whatever the status code was.
MarkAnyStatus ==
    /\ pc = "classify"
    /\ UpdateUrlStatus(url, SENT_TO_INDEX)
    /\ log_info' = [log_info EXCEPT !.processed_urls = @ + 1]
    /\ pc' = "claim"
    /\ UNCHANGED <<clientVars, url, repeat_current_url, resp, outcome, summary, table0, runs>>

\* lines 189-190: status 200; the url is marked and counted
Mark ==
    /\ pc = "classify"
    /\ resp = 200
    /\ UpdateUrlStatus(url, SENT_TO_INDEX)
    /\ log_info' = [log_info EXCEPT !.processed_urls = @ + 1]
    /\ pc' = "claim"
    /\ UNCHANGED <<clientVars, url, repeat_current_url, resp, outcome, summary, table0, runs>>

\* lines 196-199: the statistics are logged, the client and the database closed
Finish ==
    /\ pc = "finish"
    /\ summary' = [logged |-> TRUE, processed_urls |-> log_info.processed_urls,
                   api_keys_used |-> log_info.api_keys_used]
    /\ Close
    /\ pc' = "done"
    /\ UNCHANGED <<storeVars, url, repeat_current_url, log_info, resp, outcome, table0, runs>>

\* the indexing action is invoked again: a new process, a new
\* DatabaseConnection and a new GoogleAPIClient over the same directory
Rerun ==
    /\ pc = "done"
    /\ runs < MaxRuns
    /\ runs' = runs + 1
    /\ Reconnect
    /\ pc' = "claim"
    /\ url' = None
    /\ repeat_current_url' = FALSE
    /\ log_info' = NoCount
    /\ resp' = 0
    /\ outcome' = "running"
    /\ summary' = NoSummary
    /\ table0' = table'
    /\ client' = NewClient
    /\ calls' = <<>>
    /\ UNCHANGED keysDir

(* ------------------------- initial databases --------------------------- *)
\* the tables earlier add_urls and indexing invocations can have left behind:
\* any of the urls, each once, in rowid order, each new or sent_to_index
InitTables ==
    { [i \in 1..Len(us) |-> Row(us[i], st[i], 0, 0)] :
        <<us, st>> \in { p \in SeqsUpTo(Urls, Cardinality(Urls))
                                \X SeqsUpTo(URLStatus, Cardinality(Urls)) :
                          Len(p[1]) = Len(p[2]) /\ NoDuplicates(p[1]) } }

InitStore ==
    /\ disk = table
    /\ clock = 1
    /\ urlsGen = "None"
    /\ cursor = 0
    /\ uploadLog = Summary(Db)
    /\ fp = <<>>
    /\ returned = <<>>
    /\ indexed = {}
    /\ lastOp = NoOp

InitClient ==
    /\ keysDir = <<>>
    /\ client = NewClient
    /\ calls = <<>>

InitDriver ==
    /\ pc = "done"
    /\ url = None
    /\ repeat_current_url = FALSE
    /\ log_info = NoCount
    /\ resp = 0
    /\ outcome = "running"
    /\ summary = NoSummary
    /\ table0 = <<>>
    /\ runs = 0

(* --- Spec: the indexing action, on any database and key directory ------ *)
Init ==
    /\ table \in InitTables
    /\ InitStore
    /\ keysDir \in SeqsUpTo(Suffixes, MaxKeys)
    /\ runs = 1
    /\ Begin

Next ==
    \/ Claim
    \/ Submit
    \/ SubmitWithoutCredentials
    \/ SubmitFails
    \/ Rotate
    \/ Mark
    \/ Finish
    \/ Rerun

Spec == Init /\ [][Next]_vars

(* --- SpecStore: any caller of the public operations of one database --- *)
InitEmpty == table = <<>> /\ InitStore /\ InitClient /\ InitDriver

StoreUpload ==
    /\ \E lines \in SeqsUpTo(Lines, MaxBatch) : clock < MaxClock /\ UploadUrls(lines)
    /\ UNCHANGED <<clientVars, driverVars>>

StoreClaim == NextUrl /\ UNCHANGED <<clientVars, driverVars>>

StoreUpdate ==
    /\ \E u \in Urls, s \in URLStatus : clock < MaxClock /\ UpdateUrlStatus(u, s)
    /\ UNCHANGED <<clientVars, driverVars>>

StoreReconnect == Reconnect /\ UNCHANGED <<clientVars, driverVars>>

NextStore == StoreUpload \/ StoreClaim \/ StoreUpdate \/ StoreReconnect

SpecStore == InitEmpty /\ [][NextStore]_vars

(* --- SpecSweep: claims of one run, marks of urls already returned ------ *)
InitSweep == table \in InitTables /\ InitStore /\ InitClient /\ InitDriver

MarkReturned ==
    /\ \E u \in Range(returned) : clock < MaxClock /\ UpdateUrlStatus(u, SENT_TO_INDEX)
    /\ UNCHANGED <<clientVars, driverVars>>

NextSweep == StoreClaim \/ MarkReturned \/ StoreReconnect

SpecSweep == InitSweep /\ [][NextSweep]_vars

(* --- SpecUpload: one add_urls on a database with earlier content ------- *)
InitUpload ==
    /\ table \in InitTables
    /\ disk = table
    /\ clock = 1
    /\ urlsGen = "None"
    /\ cursor = 0
    /\ uploadLog = Summary(Db)
    /\ fp \in SeqsUpTo(Lines, MaxLines)
    /\ returned = <<>>
    /\ indexed = {}
    /\ lastOp = NoOp
    /\ InitClient
    /\ InitDriver

AddUrls == lastOp.op = "none" /\ UploadUrls(fp) /\ UNCHANGED <<clientVars, driverVars>>

NextUpload == AddUrls

SpecUpload == InitUpload /\ [][NextUpload]_vars

(* --- SpecClient: any caller of the operations of one client ------------ *)
InitClientApi ==
    /\ table = <<>>
    /\ InitStore
    /\ InitDriver
    /\ keysDir \in SeqsUpTo(Suffixes, MaxKeys)
    /\ client = NewClient
    /\ calls = <<>>

ClientRotate ==
    /\ Len(calls) < MaxOps
    /\ CreateNewSession
    /\ UNCHANGED <<storeVars, driverVars>>

ClientSubmit ==
    /\ Len(calls) < MaxOps
    /\ \E st \in {200, 429} : IndexRequest(<<" ", "a">>, st)
    /\ UNCHANGED <<storeVars, driverVars>>

ClientClose ==
    /\ Len(calls) < MaxOps
    /\ Close
    /\ UNCHANGED <<storeVars, driverVars>>

ClientCurrentCredentials ==
    /\ Len(calls) < MaxOps
    /\ CurrentCredentials
    /\ UNCHANGED <<storeVars, driverVars>>

NextClient == ClientRotate \/ ClientSubmit \/ ClientClose \/ ClientCurrentCredentials

SpecClient == InitClientApi /\ [][NextClient]_vars

(* ------------------------------ claims --------------------------------- *)
\* C2, as stated: under any sequence of the store's public operations (bulk
\* insert, claim next, update_url_status with any status it accepts) a url
\* whose status is SENT_TO_INDEX never has status NEW again.
C2_NeverBackToNew ==
    [][\A u \in SentUrls(table) : u \notin NewUrls(table')]_vars

\* C2, amended: a url whose status is SENT_TO_INDEX keeps that status under
\* bulk insert, claim next and update_url_status(u, SENT_TO_INDEX); the one
\* step that takes it back to NEW is update_url_status(u, NEW), which the
\* store accepts.
C2_BackToNewOnlyByUpdate ==
    [][\A u \in SentUrls(table) :
          \/ u \in SentUrls(table')
          \/ /\ u \in NewUrls(table')
             /\ lastOp' = [op |-> "update_url_status", url |-> u,
                           status |-> URLStatus_NEW]]_vars

\* a url is SENT_TO_INDEX and has just been bulk-inserted again
C2_Witness ==
    /\ lastOp.op = "upload_urls_from_io"
    /\ uploadLog.num = 1 /\ uploadLog.exists = 1
    /\ Len(table) = 1 /\ table[1].status = SENT_TO_INDEX

\* the lines of the input that name a url stored before, or named by an
\* earlier line of the same input
Duplicates(t, lines) ==
    { i \in 1..Len(lines) :
        \/ Strip(lines[i]) \in UrlsOf(t)
        \/ \E j \in 1..(i - 1) : Strip(lines[j]) = Strip(lines[i]) }

\* C3: bulk-inserting a url that is already stored (NEW or SENT_TO_INDEX)
\* leaves its record and the number of its rows unchanged, counts it as
\* skipped, raises no error, and the urls after it are still inserted.
C3_DuplicateIsNoOp ==
    [][/\ \A u \in UrlsOf(table) :
            /\ Cardinality({ i \in 1..Len(table') : table'[i].url = u }) = 1
            /\ RowOf(table', u) = RowOf(table, u)
            /\ RowOf(disk', u) = RowOf(table, u)
       /\ uploadLog'.exists = Cardinality(Duplicates(table, fp))
       /\ uploadLog'.error = "none"
       /\ \A i \in 1..Len(fp) : Strip(fp[i]) \in UrlsOf(disk')]_vars

\* the first line names a stored SENT_TO_INDEX url, the second a url that
\* was not stored and now is
C3_Witness ==
    /\ lastOp.op = "upload_urls_from_io"
    /\ Len(fp) = 2
    /\ \E i, j \in 1..Len(table) :
          /\ table[i].url = Strip(fp[1])
          /\ table[i].created = 0 /\ table[i].status = SENT_TO_INDEX
          /\ table[j].url = Strip(fp[2]) /\ table[j].created = 1

\* C4: for every input of bulk insert, added + skipped is the number of
\* insert attempts, added is the number of urls newly present in the store,
\* and every url is stored exactly once.
C4_Counters ==
    [][/\ uploadLog'.num = Len(fp)
       /\ uploadLog'.added + uploadLog'.exists = Len(fp)
       /\ uploadLog'.added = Cardinality(UrlsOf(table') \ UrlsOf(table))
       /\ Len(table') = Len(table) + uploadLog'.added
       /\ \A i, j \in 1..Len(table') : table'[i].url = table'[j].url => i = j
       /\ \A i \in 1..Len(fp) : Strip(fp[i]) \in UrlsOf(table')
       /\ disk' = table']_vars

\* two different lines of one input name the same url, which was not stored
C4_Witness ==
    /\ lastOp.op = "upload_urls_from_io"
    /\ Len(fp) = 2 /\ fp[1] # fp[2] /\ Strip(fp[1]) = Strip(fp[2])
    /\ uploadLog.added = 1 /\ uploadLog.exists = 1

\* C5: on one store instance, repeated claims return every NEW url exactly
\* once before None (no url twice; when None is returned no NEW url is left
\* unreturned: the urls marked in between were returned before), and never a
\* url whose status is SENT_TO_INDEX at the time of the call.
C5_SweepOnce ==
    /\ [](NoDuplicates(returned))
    /\ [](urlsGen = "finished" => NewUrls(table) \subseteq Range(returned))
    /\ [][Len(returned') = Len(returned) + 1 =>
            /\ returned' = Append(returned, returned'[Len(returned')])
            /\ returned'[Len(returned')] \in NewUrls(table)]_vars

\* a sweep over three rows has ended: the row that was SENT_TO_INDEX was
\* passed over, the first url returned was marked meanwhile, the second not
C5_Witness ==
    /\ urlsGen = "finished"
    /\ Len(table) = 3 /\ Len(returned) = 2
    /\ returned[1] \in SentUrls(table)
    /\ returned[2] \in NewUrls(table)

\* C6: once update_url_status(u, SENT_TO_INDEX) has returned, no later claim
\* returns u, on this store instance or on one opened after a restart.
C6_MarkedNeverClaimed ==
    [][Len(returned') = Len(returned) + 1 => returned'[Len(returned')] \notin indexed]_vars

\* a claim cycle of a later instance has ended, having returned a url but
\* none of those marked before the restart
C6_Witness ==
    /\ urlsGen = "finished"
    /\ indexed # {}
    /\ Len(returned) = 1
    /\ indexed \cap Range(returned) = {}

\* the key files of a directory (its credential pool), and the requests and
\* explicit rotations among the calls made on the client
KeyFiles(dir) == { i \in 1..Len(dir) : dir[i] = ".json" }

Submissions == SelectSeq(calls, LAMBDA c : c.op = "index_request")

Rotations == SelectSeq(calls, LAMBDA c : c.op = "create_new_session")

AllNew(t) == \A i \in 1..Len(t) : t[i].status = URLStatus_NEW

AllSent(t) == \A i \in 1..Len(t) : t[i].status = SENT_TO_INDEX

\* the endpoint answered every request with a status code and a JSON body
Answered == outcome \notin {"ConnectionError", "JSONDecodeError"}

\* C1: whatever the pool (also an empty one), the queue and the status codes
\* returned, a run of index_urls ends QUEUE_EXHAUSTED or
\* CREDENTIALS_EXHAUSTED; credential exhaustion met while the first session
\* is created inside index_request does not escape the loop.
C1_TwoOutcomes ==
    (pc = "done" /\ Answered) =>
        outcome \in {"QUEUE_EXHAUSTED", "CREDENTIALS_EXHAUSTED"}

\* C7: rotation is monotonic. A rotation hands out a key file ('.json'
\* entry) that no earlier call was given; it reports exhaustion exactly when
\* every key file has been handed out, so with only rotate() called on a pool
\* of P the first P calls succeed, whatever other entries the directory
\* holds, and the (P+1)-th reports exhaustion; after a rotation reported
\* exhaustion every later one does.
C7_RotationMonotonic ==
    \A j \in 1..Len(calls) :
        calls[j].op = "create_new_session" =>
            /\ calls[j].cred # 0 =>
                  /\ calls[j].cred \in KeyFiles(keysDir)
                  /\ \A i \in 1..(j - 1) : calls[i].cred # calls[j].cred
            /\ calls[j].cred = 0 <=>
                  KeyFiles(keysDir) \subseteq { calls[i].cred : i \in 1..(j - 1) }
            /\ (\A i \in 1..j : calls[i].op = "create_new_session") =>
                  (calls[j].cred = 0 <=> j > Cardinality(KeyFiles(keysDir)))
            /\ \A i \in 1..(j - 1) :
                  (calls[i].op = "create_new_session" /\ calls[i].cred = 0)
                      => calls[j].cred = 0

\* rotate() three times over a directory of one other entry and one key file
C7_Witness ==
    /\ keysDir = <<".txt", ".json">>
    /\ Len(calls) = 3
    /\ \A i \in 1..3 : calls[i].op = "create_new_session"
    /\ calls[1].cred = 2 /\ calls[2].cred = 0 /\ calls[3].cred = 0

\* the scenario of C8: two key files, three NEW urls; the first credential
\* answers 200 for url #1 and 429 for url #2, the second answers 200
Scenario8 ==
    /\ pc = "done" /\ Answered
    /\ Cardinality(KeyFiles(keysDir)) = 2
    /\ Len(table0) = 3 /\ AllNew(table0)
    /\ \A i \in 1..Len(Submissions) :
          LET c == Submissions[i]
          IN  IF c.cred = Min(KeyFiles(keysDir))
              THEN /\ c.url = table0[1].url => c.status = 200
                   /\ c.url = table0[2].url => c.status = 429
              ELSE c.status = 200

Outcome8 ==
    /\ Len(Rotations) = 1 /\ Rotations[1].cred # 0
    /\ LET k1 == Min(KeyFiles(keysDir))
           k2 == Rotations[1].cred
       IN  /\ k2 \in KeyFiles(keysDir) \ {k1}
           /\ Submissions = << Call("index_request", table0[1].url, k1, 200),
                               Call("index_request", table0[2].url, k1, 429),
                               Call("index_request", table0[2].url, k2, 200),
                               Call("index_request", table0[3].url, k2, 200) >>
    /\ Len(table) = 3 /\ AllSent(table) /\ disk = table
    /\ outcome = "QUEUE_EXHAUSTED"
    /\ summary.logged /\ summary.processed_urls = 3

\* C8, as stated: in the scenario the run rotates once, submits url #2 again
\* with credential #2, marks all three urls, ends QUEUE_EXHAUSTED with
\* processed count 3, and the rotation count in its summary is 1.
C8_ReportsOneRotation == Scenario8 => (Outcome8 /\ summary.api_keys_used = 1)

\* C8, amended: the same run; its summary reports api_keys_used = 2, the
\* number of key files used (rotations + 1), not the number of rotations.
C8_ReportsTwoKeys == Scenario8 => (Outcome8 /\ summary.api_keys_used = 2)

C8_Witness == Scenario8 /\ Len(Submissions) = 4

\* the scenario of C9: one key file, two NEW urls, every answer is 500
Scenario9 ==
    /\ pc = "done" /\ Answered
    /\ Cardinality(KeyFiles(keysDir)) = 1
    /\ Len(table0) = 2 /\ AllNew(table0)
    /\ \A i \in 1..Len(Submissions) : Submissions[i].status = 500

\* C9: in the scenario the run makes exactly one submission, its first
\* rotation fails with credential exhaustion, it ends CREDENTIALS_EXHAUSTED
\* with processed count 0, and both urls are still NEW.
C9_OutOfCredentials ==
    Scenario9 =>
        /\ Len(Submissions) = 1
        /\ Submissions[1].url = table0[1].url
        /\ Len(Rotations) = 1 /\ Rotations[1].cred = 0
        /\ outcome = "CREDENTIALS_EXHAUSTED"
        /\ summary.logged /\ summary.processed_urls = 0
        /\ table = table0 /\ disk = table0

C9_Witness == Scenario9 /\ Len(Submissions) = 1

\* C10: when no stored url is NEW at the start of a run, the run's first
\* claim returns None and the run ends QUEUE_EXHAUSTED with processed count
\* 0: nothing is submitted, no credential is taken (the pool may be empty)
\* and no record changes.
C10_NothingToDo ==
    NewUrls(table0) = {} =>
        /\ calls \in { <<>>, << Call("close", None, 0, 0) >> }
        /\ client = NewClient
        /\ table = table0 /\ disk = table0
        /\ returned = <<>>
        /\ log_info = NoCount
        /\ outcome \in {"running", "QUEUE_EXHAUSTED"}
        /\ pc \in {"claim", "finish", "done"}
        /\ pc # "claim" =>
              /\ urlsGen = "finished"
              /\ url = None
              /\ outcome = "QUEUE_EXHAUSTED"
        /\ pc = "done" => (summary.logged /\ summary.processed_urls = 0)

\* a run over two SENT_TO_INDEX urls and a directory without key files ended
C10_Witness ==
    /\ pc = "done"
    /\ Len(table0) = 2 /\ AllSent(table0)
    /\ KeyFiles(keysDir) = {}
    /\ outcome = "QUEUE_EXHAUSTED"

(* ------------- the session at the exits of index_urls ------------------ *)
\* C11: on every exit of index_urls (no url left, key files out, or an
\* exception that leaves the loop) no session made during the run is still
\* open.
C11_SessionReleased == pc = "done" => client.open = {}

(* ------------- the session a rotation found in place ------------------- *)
\* the session the client held before its i-th call: the one of the last
\* earlier call that made or used a session
RECURSIVE SessionBefore(_)
SessionBefore(i) ==
    IF i <= 1 THEN 0
    ELSE IF calls[i - 1].op \in {"create_new_session", "index_request"}
            /\ calls[i - 1].cred # 0
         THEN calls[i - 1].cred
         ELSE SessionBefore(i - 1)

\* C12: after any create_new_session, succeeding or raising
\* AuthenticationDataIsOutError, the session that was current before is
\* closed and no longer the client's session, and no later index_request is
\* sent through it.
C12_RotateDiscards ==
    \A i \in 1..Len(calls) :
        (calls[i].op = "create_new_session" /\ SessionBefore(i) # 0) =>
            /\ \A j \in (i + 1)..Len(calls) :
                   calls[j].op = "index_request" => calls[j].cred # SessionBefore(i)
            /\ i = Len(calls) =>
                   /\ SessionBefore(i) \notin client.open
                   /\ client.session # SessionBefore(i)

(* ------------- what follows a status other than 200 -------------------- *)
\* C13: when a submission is answered with a status other than 200 (429 or
\* any other) and the create_new_session that follows succeeds, the url is
\* not marked, no new url is claimed, and the next submission of the run is
\* of the same url through the new session; no url is submitted twice
\* through the session of one credential.
C13_RetrySameUrl ==
    /\ [](\A i \in 1..(Len(calls) - 1) :
            (/\ calls[i].op = "index_request" /\ calls[i].status \notin {0, 200}
             /\ calls[i + 1].op = "create_new_session" /\ calls[i + 1].cred # 0) =>
                /\ i + 1 = Len(calls) =>
                       /\ calls[i].url \in NewUrls(table)
                       /\ returned[Len(returned)] = calls[i].url
                       /\ url = calls[i].url
                /\ i + 2 <= Len(calls) =>
                       /\ calls[i + 2].op = "index_request"
                       /\ calls[i + 2].url = calls[i].url
                       /\ calls[i + 2].cred = calls[i + 1].cred
                       /\ calls[i + 2].cred # calls[i].cred)
    /\ [](\A i, j \in 1..Len(Submissions) :
            (Submissions[i].url = Submissions[j].url
             /\ Submissions[i].cred = Submissions[j].cred) => i = j)
    /\ [][(pc = "claim" /\ repeat_current_url) =>
            (returned' = returned /\ url' = url /\ table' = table)]_vars

\* one url was answered 429 through the first session, 500 through the
\* second and 200 through the third, and marked
C13_Witness ==
    /\ Len(Submissions) = 3
    /\ Submissions[1].status = 429 /\ Submissions[1].cred = 1
    /\ Submissions[2].status = 500 /\ Submissions[2].cred = 2
    /\ Submissions[3].status = 200 /\ Submissions[3].cred = 3
    /\ Submissions[1].url = Submissions[3].url
    /\ Submissions[3].url \in SentUrls(table)
    /\ Len(returned) = 1

(* ------------- a submission that raises -------------------------------- *)
\* C14: a submission whose request raises instead of returning a response,
\* or whose response body cannot be decoded, is handled like a status other
\* than 200 and 429: the session is replaced and the url repeated, so a run
\* that has sent a request ends only with no url left or the key files out.
C14_TransportFailureRetried ==
    (pc = "done" /\ Submissions # <<>> /\ Submissions[Len(Submissions)].cred # 0) =>
        outcome \in {"QUEUE_EXHAUSTED", "CREDENTIALS_EXHAUSTED"}

(* ------------- close() ------------------------------------------------- *)
\* C15: close() on a client without a session changes nothing; a close()
\* right after a close() changes nothing more; every close() leaves the
\* session held with no open connection, and touches nothing else.
C15_CloseIdempotent ==
    [][(Len(calls') = Len(calls) + 1 /\ calls'[Len(calls')].op = "close") =>
          /\ client.session = 0 => client' = client
          /\ (Len(calls) > 0 /\ calls[Len(calls)].op = "close") => client' = client
          /\ client'.session \notin client'.open
          /\ client' = [client EXCEPT !.open = @ \ {client.session}]]_vars

\* close() was called twice in a row on a client whose session had sent a
\* request
C15_Witness ==
    /\ Len(calls) = 3
    /\ calls[1].op = "index_request" /\ calls[1].cred = 1
    /\ calls[2].op = "close" /\ calls[2].cred = 1
    /\ calls[3].op = "close"
    /\ client.session = 1 /\ client.open = {}

(* ------------- the sessions of one client ------------------------------ *)
\* C16: in every state a client reaches by index_request, create_new_session
\* and close (and current_credentials), at most one of the sessions it made
\* is open, and that one is the session it holds: a session is replaced only
\* after it was closed.
C16_OneOpenSession ==
    /\ Cardinality(client.open) <= 1
    /\ client.open \subseteq {client.session} \ {0}

\* the first session sent a request and was replaced; the second is open
C16_Witness ==
    /\ Len(calls) >= 2
    /\ calls[1].op = "index_request" /\ calls[1].cred = 1
    /\ calls[2].op = "create_new_session" /\ calls[2].cred = 2
    /\ client.session = 2 /\ client.open = {2}

(* ------------- what a run marks ---------------------------------------- *)
\* the urls this run has marked
MarkedByRun == SentUrls(table) \ SentUrls(table0)

\* the status code of the last submission of u in this run (0: none)
LastStatus(u) ==
    LET at == { i \in 1..Len(Submissions) : Submissions[i].url = u }
    IN  IF at = {} THEN 0
        ELSE Submissions[CHOOSE i \in at : \A j \in at : j <= i].status

\* C17: in every state of a run, a url was marked SENT_TO_INDEX by this run
\* only if its last submission in this run was answered 200; the counter
\* processed_urls is the number of urls this run has marked; a url whose
\* last answer was not 200 still has status NEW.
C17_MarkedOnlyOn200 ==
    /\ \A u \in MarkedByRun : LastStatus(u) = 200
    /\ log_info.processed_urls = Cardinality(MarkedByRun)
    /\ \A i \in 1..Len(Submissions) :
          LastStatus(Submissions[i].url) # 200 => Submissions[i].url \in NewUrls(table)

\* a run has marked a url answered 500 and then 200, and has ended with a
\* second url whose only answer was 429 and that is still NEW
C17_Witness ==
    /\ pc = "done" /\ outcome = "CREDENTIALS_EXHAUSTED"
    /\ Len(Submissions) = 3
    /\ Submissions[1].status = 500 /\ Submissions[2].status = 200
    /\ Submissions[1].url = Submissions[2].url
    /\ Submissions[3].status = 429 /\ Submissions[3].url # Submissions[1].url
    /\ MarkedByRun = {Submissions[1].url}
    /\ Submissions[3].url \in NewUrls(table)
    /\ log_info.processed_urls = 1

(* ------------- termination of a run ------------------------------------ *)
\* the steps of one invocation of index_urls
NextRun ==
    \/ Claim
    \/ Submit
    \/ SubmitWithoutCredentials
    \/ SubmitFails
    \/ Rotate
    \/ Mark
    \/ Finish

\* One invocation; the process runs on as long as it has a step to take:
\* every request is answered or raises.
FairSpec == Init /\ [][NextRun]_vars /\ WF_vars(NextRun)

\* C18: every run ends, whatever the urls, the key files and the answers;
\* an iteration that stays in the loop marks one more url or takes one more
\* key file; a run makes at most (NEW urls at its start + key files)
\* submissions; no credential becomes the current one a second time.
C18_Terminates ==
    /\ (pc # "done") ~> (pc = "done")
    /\ [][pc = "classify" =>
            \/ pc' = "finish"
            \/ Cardinality(SentUrls(table')) = Cardinality(SentUrls(table)) + 1
            \/ client'.pos > client.pos]_vars
    /\ [](Len(Submissions) <= Cardinality(NewUrls(table0)) + Cardinality(KeyFiles(keysDir)))
    /\ [](\A i, j \in 1..Len(calls) :
            (/\ i < j
             /\ calls[i].op \in {"index_request", "create_new_session"}
             /\ calls[j].op = "create_new_session" /\ calls[j].cred # 0) =>
                calls[i].cred < calls[j].cred)

\* a run over two NEW urls and three key files has ended after four
\* submissions, three of them of the same url
C18_Witness ==
    /\ pc = "done" /\ outcome = "QUEUE_EXHAUSTED"
    /\ Cardinality(NewUrls(table0)) = 2
    /\ Cardinality(KeyFiles(keysDir)) = 3
    /\ Len(Submissions) = 4
    /\ Submissions[1].url = Submissions[3].url
    /\ client.cred = 3

(* ------------- a run the key files did not suffice for ----------------- *)
\* C19: when a run ends with the key files out, the urls it marked are the
\* urls next_url_for_indexing returned before the last one, which is the url
\* in flight; that url and the urls not yet returned are still NEW, and all
\* of it is committed. A later run starts from exactly that database and
\* claims only urls that are NEW in it: all of them when it goes through.
C19_MarkedPrefix ==
    /\ [](outcome = "CREDENTIALS_EXHAUSTED" =>
            /\ Len(returned) > 0
            /\ MarkedByRun = { returned[i] : i \in 1..(Len(returned) - 1) }
            /\ url = returned[Len(returned)]
            /\ url \in NewUrls(table)
            /\ NewUrls(table) = NewUrls(table0) \ MarkedByRun
            /\ disk = table)
    /\ [][runs' = runs + 1 => table0' = table]_vars
    /\ [](Range(returned) \subseteq NewUrls(table0))
    /\ [](outcome = "QUEUE_EXHAUSTED" => Range(returned) = NewUrls(table0))

\* of three NEW urls the run has marked the first, the key files ran out on
\* the second, and the third was never claimed
C19_Witness ==
    /\ pc = "done" /\ outcome = "CREDENTIALS_EXHAUSTED"
    /\ Cardinality(NewUrls(table0)) = 3
    /\ Len(returned) = 2
    /\ MarkedByRun = {returned[1]}
    /\ Cardinality(NewUrls(table)) = 2

(* ------------- key files and sessions ---------------------------------- *)
\* the sessions the client has made so far
SessionsMade ==
    { calls[i].cred : i \in { k \in 1..Len(calls) :
          calls[k].op \in {"index_request", "create_new_session"} } } \ {0}

\* C20: every credential taken from the key files is used to build a
\* session: the current credential is always the one of the session held
\* (no call, reading current_credentials included, draws a credential
\* without building a session from it), and when the key files are reported
\* out there were as many sessions as key files.
C20_CredentialsBuildSessions ==
    /\ client.cred = client.session
    /\ \A i \in 1..Len(calls) :
          (calls[i].op = "create_new_session" /\ calls[i].cred = 0) =>
              Cardinality(SessionsMade) = Cardinality(KeyFiles(keysDir))


============================================================================
